---- MODULE Spec2Model ----
(***************************************************************************)
(* Model of src/src/mdparser.py: the markdown-dialect parser that turns    *)
(* API documentation into a Request (parameters, response schemas).        *)
(*                                                                         *)
(* Values                                                                  *)
(*   Response       an insertion-ordered dict: a sequence of fields with    *)
(*                  distinct keys.                                          *)
(*   ResponseField  [key, type, nested]; Optional[Response] is a sequence   *)
(*                  of length 0 (None) or 1.                                *)
(*   JSON value     [t, keys, items]: t is Python's type(v).__name__;       *)
(*                  a dict has keys[i] -> items[i], a list has items.       *)
(*   text           a sequence of tokens [tok, val] (fence openers, fence   *)
(*                  terminators and the text between them).                 *)
(***************************************************************************)
EXTENDS Integers, Sequences, FiniteSets, TLC

VARIABLES pc, arg, heap, ret

vars == <<pc, arg, heap, ret>>

(***************************************************************************)
(* Bounds of the explored inputs.                                          *)
(***************************************************************************)
MaxFields == 2

MaxFieldsTriple == 1

Keys == {"a", "b"}

(***************************************************************************)
(* ResponseField and Response.                                             *)
(***************************************************************************)
None == <<>>

Some(r) == <<r>>

ResponseField(key, type, nested) ==
    [key |-> key, type |-> type, nested |-> nested]

Response == <<>>

\* dict.get(k): the index of key k in the ordered dict d, 0 when absent
RECURSIVE IndexFrom(_, _, _)
IndexFrom(d, k, i) ==
    IF i > Len(d) THEN 0
    ELSE IF d[i].key = k THEN i
    ELSE IndexFrom(d, k, i + 1)

Get(d, k) == IndexFrom(d, k, 1)

KeySet(d) == {d[i].key : i \in 1..Len(d)}

Field(d, k) == d[Get(d, k)]

Has(d, k) == Get(d, k) # 0

\* an exception leaves no return value
Raise(r1after) == [ok |-> FALSE, res |-> Response, r1 |-> r1after]

(***************************************************************************)
(* union_response.  res starts as a new dict holding r1's field OBJECTS    *)
(* (res.fields[k] = v does not copy), so the assignment                    *)
(* res.fields[k].nested = ... writes into r1's field.  The operator        *)
(* returns the outcome together with r1 as it is after the call; r2's      *)
(* fields are only read and inserted, never assigned.                      *)
(***************************************************************************)
RECURSIVE union_response(_, _)
RECURSIVE UnionLoop(_, _, _)

\* "res.fields[k].nested = union_response(f.nested, v.nested)" for the field
\* at position j of res, u being the outcome of the inner call; when the
\* inner call raises, what it had already written stays in r1's field
UnionNested(res, r2, i, j, u) ==
    IF u.ok
    THEN UnionLoop([res EXCEPT ![j].nested = Some(u.res)], r2, i + 1)
    ELSE [ok |-> FALSE, res |-> [res EXCEPT ![j].nested = Some(u.r1)]]

\* the loop body with the kinds of the two fields never compared
UnionSharedAnyKind(res, r2, i, j, f, v) ==
    IF f.type # "data" /\ f.type = v.type THEN
       IF f.nested = None \/ v.nested = None THEN
          IF f.type = "array" THEN UnionLoop(res, r2, i + 1)
          ELSE [ok |-> FALSE, res |-> res]
       ELSE UnionNested(res, r2, i, j,
                        union_response(f.nested[1], v.nested[1]))
    ELSE UnionLoop(res, r2, i + 1)

\* the loop body for the field v of r2 whose key is already in res, as f
UnionShared(res, r2, i, j, f, v) ==
    IF f.type # v.type THEN [ok |-> FALSE, res |-> res]
    ELSE IF f.type # "data" THEN
       IF f.nested = None \/ v.nested = None THEN
          IF f.type = "array" THEN UnionLoop(res, r2, i + 1)
          ELSE [ok |-> FALSE, res |-> res]
       ELSE UnionNested(res, r2, i, j,
                        union_response(f.nested[1], v.nested[1]))
    ELSE UnionLoop(res, r2, i + 1)

\* the loop body for the field v of r2, j being res.fields.get(k)
UnionField(res, r2, i, v, j) ==
    IF j = 0 THEN UnionLoop(Append(res, v), r2, i + 1)
    ELSE UnionShared(res, r2, i, j, res[j], v)

\* the loop "for k, v in r2.fields.items()" from position i, on the dict res
UnionLoop(res, r2, i) ==
    IF i > Len(r2) THEN [ok |-> TRUE, res |-> res]
    ELSE UnionField(res, r2, i, r2[i], Get(res, r2[i].key))

\* the outcome u of the loop, with r1 as the call leaves it
UnionResult(r1, u) ==
    IF u.ok THEN [ok |-> TRUE, res |-> u.res, r1 |-> SubSeq(u.res, 1, Len(r1))]
    ELSE Raise(SubSeq(u.res, 1, Len(r1)))

union_response(r1, r2) == UnionResult(r1, UnionLoop(r1, r2, 1))

(***************************************************************************)
(* Schemas compared up to key order: same key set, and for every key the   *)
(* same type and (recursively) the same nested schema.                     *)
(***************************************************************************)
RECURSIVE SameSchema(_, _)
SameSchema(x, y) ==
    /\ KeySet(x) = KeySet(y)
    /\ \A i \in 1..Len(x) :
          LET f == x[i]
              g == y[Get(y, f.key)]
          IN  /\ f.type = g.type
              /\ (f.nested = None) <=> (g.nested = None)
              /\ f.nested # None => SameSchema(f.nested[1], g.nested[1])

(***************************************************************************)
(* The Responses schema inference can produce, by total number of fields.  *)
(***************************************************************************)
RECURSIVE RespExact(_)
RECURSIVE FieldExact(_)

FieldExact(m) ==
    IF m = 1
    THEN {ResponseField(k, t, None) : k \in Keys, t \in {"data", "array"}}
           \cup {ResponseField(k, t, Some(Response)) :
                    k \in Keys, t \in {"array", "object"}}
    ELSE {ResponseField(k, t, Some(n)) :
             k \in Keys, t \in {"array", "object"}, n \in RespExact(m - 1)}

RespExact(n) ==
    IF n = 0 THEN {Response}
    ELSE UNION {
           UNION {{<<f>> \o rest :
                      rest \in {r \in RespExact(n - m) : Get(r, f.key) = 0}}
                  : f \in FieldExact(m)}
           : m \in 1..n}

Responses == UNION {RespExact(n) : n \in 0..MaxFields}

ResponsesTriple == UNION {RespExact(n) : n \in 0..MaxFieldsTriple}

NoRet == [ok |-> FALSE, res |-> Response]

Outcome(u) == [ok |-> u.ok, res |-> u.res]

(***************************************************************************)
(* SpecUnion: two schemas a and b; union_response(a, b), then              *)
(* union_response(b, a) on fresh copies of both.                           *)
(***************************************************************************)
InitUnion ==
    /\ pc = "start"
    /\ arg \in [a : Responses, b : Responses]
    /\ heap = [r1 |-> arg.a, r2 |-> arg.b]
    /\ ret = [ab |-> NoRet, ba |-> NoRet]

CallUnionAB ==
    /\ pc = "start"
    /\ LET u == union_response(arg.a, arg.b)
       IN  /\ ret' = [ret EXCEPT !.ab = Outcome(u)]
           /\ heap' = [r1 |-> u.r1, r2 |-> arg.b]
    /\ pc' = "ab"
    /\ UNCHANGED arg

CallUnionBA ==
    /\ pc = "ab"
    /\ ret' = [ret EXCEPT !.ba = Outcome(union_response(arg.b, arg.a))]
    /\ pc' = "done"
    /\ UNCHANGED <<arg, heap>>

NextUnion == CallUnionAB \/ CallUnionBA

SpecUnion == InitUnion /\ [][NextUnion]_vars

(***************************************************************************)
(* Decoded JSON values.  t is type(v).__name__ as res_field_from_json_array *)
(* reads it: str, int, float, bool, NoneType, dict, list.                  *)
(***************************************************************************)
Scalar(t) == [t |-> t, keys |-> <<>>, items |-> <<>>]

JDict(keys, items) == [t |-> "dict", keys |-> keys, items |-> items]

JList(items) == [t |-> "list", keys |-> <<>>, items |-> items]

\* the outcome of a parsing step: a Response, or the exception raised
Ok(r) == [ok |-> TRUE, err |-> "", res |-> r]

Err(e) == [ok |-> FALSE, err |-> e, res |-> Response]

(***************************************************************************)
(* res_from_json_obj and res_field_from_json_array.  A field outcome       *)
(* carries the field as a one-field Response.                              *)
(***************************************************************************)
RECURSIVE res_from_json_obj(_)
RECURSIVE ObjLoop(_, _, _)
RECURSIVE ArrayLoop(_, _, _)

\* nested = union_response(nested, ...), u being the outcome of the call
ArrayUnion(a, i, u) ==
    IF u.ok THEN ArrayLoop(a, i + 1, u.res) ELSE Err("ValueError")

\* the loop body, r being the outcome of res_from_json_obj(o)
ArrayElem(a, i, nested, r) ==
    IF ~r.ok THEN r ELSE ArrayUnion(a, i, union_response(nested, r.res))

\* "for o in a: nested = union_response(nested, res_from_json_obj(o))"
ArrayLoop(a, i, nested) ==
    IF i > Len(a) THEN Ok(nested)
    ELSE ArrayElem(a, i, nested, res_from_json_obj(a[i]))

\* f.nested = nested, n being the outcome of the loop over the elements
ArrayOfObjects(key, n) ==
    IF n.ok THEN Ok(<<ResponseField(key, "array", Some(n.res))>>) ELSE n

\* the field for the element types found
ArrayOfTypes(key, a, types) ==
    IF Cardinality(types) # 1 THEN Err("ParseError")
    ELSE IF types = {"str"} \/ types = {"int"}
    THEN Ok(<<ResponseField(key, "array", None)>>)
    ELSE IF types # {"dict"} THEN Err("ParseError")
    ELSE ArrayOfObjects(key, ArrayLoop(a, 1, Response))

res_field_from_json_array(key, a) ==
    ArrayOfTypes(key, a, {a[i].t : i \in 1..Len(a)})

\* res.fields[k] = the field, or the exception of the call that was to
\* build it; f is the outcome holding the field
ObjField(o, i, res, f) ==
    IF f.ok THEN ObjLoop(o, i + 1, res \o f.res) ELSE f

\* the object field of a nested dict, n being res_from_json_obj(v)
ObjNested(k, n) ==
    IF n.ok THEN Ok(<<ResponseField(k, "object", Some(n.res))>>) ELSE n

\* the loop body for key k with value v
ObjItem(o, i, res, k, v) ==
    IF v.t = "dict" THEN ObjField(o, i, res, ObjNested(k, res_from_json_obj(v)))
    ELSE IF v.t = "list"
    THEN ObjField(o, i, res, res_field_from_json_array(k, v.items))
    ELSE ObjLoop(o, i + 1, Append(res, ResponseField(k, "data", None)))

\* "for k, v in o.items()" from position i, on the dict res
ObjLoop(o, i, res) ==
    IF i > Len(o.keys) THEN Ok(res)
    ELSE ObjItem(o, i, res, o.keys[i], o.items[i])

res_from_json_obj(o) == ObjLoop(o, 1, Response)

(***************************************************************************)
(* The JSON documents explored.                                            *)
(***************************************************************************)
MaxElems == 2

Scalars == {Scalar(t) : t \in {"str", "int", "float", "bool", "NoneType"}}

\* the key orders of a JSON object over Keys (json.loads keeps keys unique)
KeySeqs ==
    {<<>>} \cup {<<k>> : k \in Keys}
           \cup {kl \in Keys \X Keys : kl[1] # kl[2]}

ElemVals == {Scalar("int"), JDict(<<>>, <<>>), JList(<<Scalar("int")>>)}

ElemDicts ==
    UNION {{JDict(ks, vs) : vs \in [1..Len(ks) -> ElemVals]} : ks \in KeySeqs}

SeqsUpTo(S, n) == UNION {[1..m -> S] : m \in 0..n}

Lists == {JList(a) : a \in SeqsUpTo(Scalars, MaxElems) \cup SeqsUpTo(ElemDicts, MaxElems)}
           \cup {JList(<<d, x>>) : d \in {JDict(<<>>, <<>>)}, x \in Scalars}

TopDicts ==
    ElemDicts \cup {JDict(<<k>>, <<v>>) : k \in Keys, v \in Lists \cup Scalars}

(***************************************************************************)
(* SpecInfer: schema inference on one decoded JSON object.                 *)
(***************************************************************************)
InitInfer ==
    /\ pc = "start"
    /\ arg \in [o : TopDicts]
    /\ heap = Response
    /\ ret = Err("")

CallResFromJsonObj ==
    /\ pc = "start"
    /\ ret' = res_from_json_obj(arg.o)
    /\ pc' = "done"
    /\ UNCHANGED <<arg, heap>>

NextInfer == CallResFromJsonObj

SpecInfer == InitInfer /\ [][NextInfer]_vars

\* a list that is empty or holds only strings, only numbers or only booleans
PrimitiveList(v) ==
    /\ v.t = "list"
    /\ \/ v.items = <<>>
       \/ \A i \in 1..Len(v.items) : v.items[i].t = "str"
       \/ \A i \in 1..Len(v.items) : v.items[i].t \in {"int", "float"}
       \/ \A i \in 1..Len(v.items) : v.items[i].t = "bool"

\* C5: every key whose value is a list that is empty, or all strings, or all
\* numbers (integer or decimal), or all booleans, is inferred as a field of
\* kind array with no nested schema, and inference succeeds.
C5_PrimitiveArrays ==
    pc = "done" =>
      \A i \in 1..Len(arg.o.keys) :
         ((\A j \in 1..Len(arg.o.keys) : PrimitiveList(arg.o.items[j]))
            /\ PrimitiveList(arg.o.items[i]))
           => /\ ret.ok
              /\ Has(ret.res, arg.o.keys[i])
              /\ Field(ret.res, arg.o.keys[i]) =
                    ResponseField(arg.o.keys[i], "array", None)

(***************************************************************************)
(* Section text as tokens [tok, val]:                                      *)
(*   js, json   the openers "```javascript\n" and "```json\n"               *)
(*   fence      a bare "```"                                                *)
(*   tag        what is left of an opener once its "```" has been cut off:  *)
(*              its name and its "\n"                                       *)
(*   name       the name of an opener without its "\n"                      *)
(*   obj, arr, scalar   the text of a JSON object, array, other value       *)
(*   members    object members without the enclosing braces                 *)
(*   obj_unq, members_unq   the same with the key written __invalid:        *)
(*   lbrace, rbrace         "{" and "}" added by the repair                 *)
(*   nl         one newline, "\n"                                           *)
(* The text of obj, arr, scalar and members starts and ends with a         *)
(* character that is not white space, and no two of these tokens are next  *)
(* to each other in a text: something else, a newline if nothing more,     *)
(* stands between them.                                                    *)
(* val is the value the text denotes (for members: once braces are added). *)
(***************************************************************************)
NoVal == Scalar("NoneType")

Tok(t) == [tok |-> t, val |-> NoVal]

Text(t, v) == [tok |-> t, val |-> v]

\* str.partition(sep): the position of the first token holding sep, 0 if none
RECURSIVE FindFrom(_, _, _)
FindFrom(s, toks, i) ==
    IF i > Len(s) THEN 0
    ELSE IF s[i].tok \in toks THEN i
    ELSE FindFrom(s, toks, i + 1)

Find(s, toks) == FindFrom(s, toks, 1)

Before(s, i) == SubSeq(s, 1, i - 1)

After(s, i) == SubSeq(s, i + 1, Len(s))

\* the tokens that contain "```"
Backticks == {"js", "json", "fence"}

\* the text after the "```" found at position i: an opener leaves its tag
AfterBackticks(s, i) ==
    IF s[i].tok = "fence" THEN After(s, i) ELSE <<Tok("tag")>> \o After(s, i)

\* str.strip(): the newlines at both ends go, and so does the newline that
\* ends an opener or a tag when that is the last thing in the text; an
\* opener without its newline is a bare "```" and the opener's name
RECURSIVE Strip(_)
Strip(s) ==
    IF s = <<>> THEN s
    ELSE IF s[1].tok = "nl" THEN Strip(Tail(s))
    ELSE IF s[Len(s)].tok = "nl" THEN Strip(Before(s, Len(s)))
    ELSE IF s[Len(s)].tok \in {"js", "json"}
    THEN Before(s, Len(s)) \o <<Tok("fence"), Tok("name")>>
    ELSE IF s[Len(s)].tok = "tag" THEN Before(s, Len(s)) \o <<Tok("name")>>
    ELSE s

\* s.replace("__invalid:", '"__invalid":')
RECURSIVE Quote(_)
Quote(s) ==
    IF s = <<>> THEN s
    ELSE <<IF s[1].tok = "obj_unq" THEN Text("obj", s[1].val)
           ELSE IF s[1].tok = "members_unq" THEN Text("members", s[1].val)
           ELSE s[1]>> \o Quote(Tail(s))

\* json.loads skips the white space of JSON, which a newline is
NotNewline(t) == t.tok # "nl"

\* json.loads of the text t without its newlines: one JSON value, else
\* JSONDecodeError
LoadsValue(t) ==
    IF Len(t) = 1 /\ t[1].tok \in {"obj", "arr", "scalar"}
    THEN [ok |-> TRUE, val |-> t[1].val]
    ELSE IF /\ Len(t) = 3
            /\ t[1].tok = "lbrace"
            /\ t[2].tok = "members"
            /\ t[3].tok = "rbrace"
    THEN [ok |-> TRUE, val |-> t[2].val]
    ELSE IF Len(t) = 2 /\ t[1].tok = "lbrace" /\ t[2].tok = "rbrace"
    THEN [ok |-> TRUE, val |-> JDict(<<>>, <<>>)]
    ELSE [ok |-> FALSE, val |-> NoVal]

Loads(s) == LoadsValue(SelectSeq(s, NotNewline))

\* every ParseError, ValueError and JSONDecodeError is re-raised as ParseError
Reraise(r) == IF r.ok THEN r ELSE Err("ParseError")

\* the elements of a top-level list of objects folded into one Response
ListResponse(f) ==
    IF f.ok /\ f.res[1].nested # None THEN Ok(f.res[1].nested[1])
    ELSE Err("ParseError")

\* parse_json_response on the decoded value d, with a top-level list of
\* objects inferred as the union of its elements
DecodedWithLists(d) ==
    IF ~d.ok THEN Err("ParseError")
    ELSE IF d.val.t = "dict" THEN Reraise(res_from_json_obj(d.val))
    ELSE IF d.val.t = "list"
    THEN ListResponse(res_field_from_json_array("", d.val.items))
    ELSE Err("ParseError")

\* parse_json_response on d, the outcome of json.loads
Decoded(d) ==
    IF ~d.ok THEN Err("ParseError")
    ELSE IF d.val.t = "dict" THEN Reraise(res_from_json_obj(d.val))
    ELSE Err("ParseError")

parse_json_response(s) == Decoded(Loads(s))

\* the first javascript opener of s, else the first json opener, else 0
Opener(js, json) == IF js # 0 THEN js ELSE json

FindOpener(s) == Opener(Find(s, {"js"}), Find(s, {"json"}))

\* the text up to the closing "```" at j in rest, parsed
SuccessBlock(rest, j) ==
    IF j = 0 THEN Err("ParseError") ELSE parse_json_response(Before(rest, j))

\* the text after the opener at i
SuccessFrom(s, i) ==
    IF i = 0 THEN Err("ParseError")
    ELSE SuccessBlock(After(s, i), Find(After(s, i), Backticks))

parse_success_response(s) == SuccessFrom(s, FindOpener(s))

\* the length check, the brace repair and the decoding of the stripped text
ErrorBlockStripped(json_str) ==
    IF json_str = <<>> THEN Err("ParseError")
    ELSE IF json_str[1].tok \notin {"obj", "obj_unq", "lbrace"}
    THEN parse_json_response(<<Tok("lbrace")>> \o json_str \o <<Tok("rbrace")>>)
    ELSE parse_json_response(json_str)

\* one block of an error response
ErrorBlock(text) == ErrorBlockStripped(Strip(text))

RECURSIVE ErrorLoop(_, _)

\* res = union_response(res, ...), u being the outcome; then the next round
\* on the text after the closing "```" at j
ErrorUnion(rest, j, u) ==
    IF u.ok THEN ErrorLoop(AfterBackticks(rest, j), u.res)
    ELSE Err("ValueError")

\* r is the outcome of parsing the block
ErrorParsed(rest, j, res, r) ==
    IF ~r.ok THEN r ELSE ErrorUnion(rest, j, union_response(res, r.res))

\* the text after the opener, the closing "```" being at j (0: none)
ErrorRest(rest, j, res) ==
    IF j = 0 THEN Err("ParseError")
    ELSE ErrorParsed(rest, j, res, ErrorBlock(Before(rest, j)))

\* one round, the opener being at i (0: none left)
ErrorFrom(s, i, res) ==
    IF i = 0 THEN Ok(res)
    ELSE ErrorRest(After(s, i), Find(After(s, i), Backticks), res)

\* the "while True" loop of parse_error_response on the remaining text s
ErrorLoop(s, res) == ErrorFrom(s, FindOpener(s), res)

parse_error_response(s) == ErrorLoop(Quote(s), Response)

(***************************************************************************)
(* Section bodies: a sequence of fenced blocks [open, text, closed].       *)
(***************************************************************************)
MaxBlocks == 3

Block(open, text, closed) == [open |-> open, text |-> text, closed |-> closed]

BlockText(b) ==
    <<Tok(b.open), b.text, Tok("nl")>>
       \o (IF b.closed THEN <<Tok("fence"), Tok("nl")>> ELSE <<>>)

RECURSIVE Flatten(_)
Flatten(bs) == IF bs = <<>> THEN <<>> ELSE BlockText(bs[1]) \o Flatten(Tail(bs))

Openers == {"js", "json"}

BlocksOver(texts) ==
    {Block(o, t, c) : o \in Openers, t \in texts, c \in BOOLEAN}

Invalid == JDict(<<"__invalid">>, <<Scalar("str")>>)

\* what the documentation's error blocks hold
ErrorTexts ==
    {Text("obj", JDict(<<"a">>, <<Scalar("int")>>)),
     Text("obj", JDict(<<"a">>, <<JDict(<<>>, <<>>)>>)),
     Text("members", JDict(<<"b">>, <<Scalar("bool")>>)),
     Text("members_unq", Invalid),
     Text("obj_unq", Invalid),
     Text("arr", JList(<<>>)),
     Tok("nl")}

SuccessTexts ==
    {Text("obj", d) : d \in TopDicts}
      \cup {Text("arr", l) : l \in Lists}
      \cup {Text("scalar", v) : v \in Scalars}
      \cup {Text("members", JDict(<<"b">>, <<Scalar("bool")>>)),
            Text("obj_unq", Invalid), Tok("nl")}

(***************************************************************************)
(* SpecSuccess: parse_success_response on a section body.                  *)
(***************************************************************************)
InitSuccess ==
    /\ pc = "start"
    /\ arg \in [blocks : {<<>>} \cup {<<b>> : b \in BlocksOver(SuccessTexts)}
                           \cup [1..2 -> BlocksOver(ErrorTexts)]]
    /\ heap = Response
    /\ ret = Err("")

CallParseSuccessResponse ==
    /\ pc = "start"
    /\ ret' = parse_success_response(Flatten(arg.blocks))
    /\ pc' = "done"
    /\ UNCHANGED <<arg, heap>>

NextSuccess == CallParseSuccessResponse

SpecSuccess == InitSuccess /\ [][NextSuccess]_vars

(***************************************************************************)
(* SpecError: parse_error_response on a section body.                      *)
(***************************************************************************)
InitError ==
    /\ pc = "start"
    /\ arg \in [blocks : SeqsUpTo(BlocksOver(ErrorTexts), MaxBlocks)]
    /\ heap = Response
    /\ ret = Err("")

CallParseErrorResponse ==
    /\ pc = "start"
    /\ ret' = parse_error_response(Flatten(arg.blocks))
    /\ pc' = "done"
    /\ UNCHANGED <<arg, heap>>

NextError == CallParseErrorResponse

SpecError == InitError /\ [][NextError]_vars

(***************************************************************************)
(* Claims about the code-block extractor.                                  *)
(***************************************************************************)
\* both fail, or both return the same schema up to key order
SameOutcome(x, y) == x.ok = y.ok /\ (x.ok => SameSchema(x.res, y.res))

AllClosed(bs) == \A i \in 1..Len(bs) : bs[i].closed

\* every block holds text that decodes to an object (after the repairs)
AllDecode(bs) == \A i \in 1..Len(bs) : ErrorBlock(Quote(<<bs[i].text>>)).ok

\* union_response folded over every block of bs in document order
RECURSIVE FoldBlocks(_, _, _)

FoldUnion(bs, i, u) ==
    IF u.ok THEN FoldBlocks(bs, i + 1, u.res) ELSE Err("ValueError")

FoldBlock(bs, i, res, r) ==
    IF ~r.ok THEN r ELSE FoldUnion(bs, i, union_response(res, r.res))

FoldBlocks(bs, i, res) ==
    IF i > Len(bs) THEN Ok(res)
    ELSE FoldBlock(bs, i, res, ErrorBlock(Quote(<<bs[i].text>>)))

\* C4: for a body made of properly terminated javascript or json blocks in
\* any order, parse_error_response returns the fold of union_response over
\* every block in document order; no block is skipped.
C4_EveryBlockFolded ==
    (pc = "done" /\ AllClosed(arg.blocks) /\ AllDecode(arg.blocks)) =>
      SameOutcome(ret, FoldBlocks(arg.blocks, 1, Response))

SingleBlock == Len(arg.blocks) = 1 /\ arg.blocks[1].closed

ScalarValued(d) ==
    d.t = "dict" /\ \A i \in 1..Len(d.items) : d.items[i].t \notin {"dict", "list"}

\* a non-empty list of objects whose values are all primitive
ObjectList(v) ==
    /\ v.t = "list"
    /\ v.items # <<>>
    /\ \A i \in 1..Len(v.items) : ScalarValued(v.items[i])

ElemKeys(v) == UNION {{v.items[i].keys[j] : j \in 1..Len(v.items[i].keys)}
                         : i \in 1..Len(v.items)}

\* C6 as stated: a success section whose single block decodes to a top-level
\* array of objects is accepted, and the schema has every key of every
\* element.
C6_ArrayOfObjectsAccepted ==
    (pc = "done" /\ SingleBlock /\ arg.blocks[1].text.tok = "arr"
       /\ ObjectList(arg.blocks[1].text.val))
      => ret.ok /\ ElemKeys(arg.blocks[1].text.val) \subseteq KeySet(ret.res)

\* C6 amended: a single block that decodes to a top-level array (of objects
\* or not) or to any other non-object value is rejected with a ParseError;
\* a top-level object of primitive values is accepted, and an accepted
\* object's schema has exactly the object's keys, in order.
C6_OnlyObjectsAccepted ==
    (pc = "done" /\ SingleBlock) =>
      LET t == arg.blocks[1].text
      IN  /\ t.tok \in {"arr", "scalar"} => ~ret.ok /\ ret.err = "ParseError"
          /\ (t.tok = "obj" /\ ScalarValued(t.val)) => ret.ok
          /\ (t.tok = "obj" /\ ret.ok) =>
                [i \in 1..Len(ret.res) |-> ret.res[i].key] = t.val.keys

\* the array [{"a": 1}, {"a": 1, "b": 2}] in a json block is rejected
C6_Witness ==
    /\ pc = "done"
    /\ arg.blocks = <<Block("json",
                            Text("arr",
                                 JList(<<JDict(<<"a">>, <<Scalar("int")>>),
                                         JDict(<<"a", "b">>,
                                               <<Scalar("int"), Scalar("int")>>)>>)),
                            TRUE)>>
    /\ ~ret.ok

(***************************************************************************)
(* Parameter sections.  The section is split on blank lines into stripped  *)
(* lines; a line is [kind, text, name, type, doc]:                         *)
(*   marker  "**<name>:**", a bolded category                               *)
(*   none    the sentinel, in any letter case                               *)
(*   param   a code span "<name> <type>", then " - <doc>"; type and doc     *)
(*           are optional, and text leaves out the span's two backticks     *)
(*   prose   free text that does not start with a backtick                  *)
(*   blank   the empty line an empty section splits into                    *)
(* A marker line also has chars, the line character by character, on which *)
(* the code's replace and lower work; chars is <<>> on the other kinds.    *)
(* Text that the code edits by character (marker lines, section headers,   *)
(* the title) is a sequence of characters, a character being its code      *)
(* point.                                                                  *)
(***************************************************************************)
\* the characters str.strip() removes: those str.isspace() holds for
Whitespace ==
    {9, 10, 11, 12, 13, 28, 29, 30, 31, 32, 133, 160, 5760}
      \cup (8192..8202) \cup {8232, 8233, 8239, 8287, 12288}

\* the code points str.lower() is modelled on
Characters == 0..255

\* the upper-case letters among Characters: A-Z, and 192-222 without the
\* multiplication sign
UpperCase == (65..90) \cup ((192..222) \ {215})

\* str.lower() on one character of Characters
LowerChar(c) ==
    CASE c \in UpperCase -> c + 32
      [] c \in Characters \ UpperCase -> c

\* str.lower() on a sequence of characters
LowerChars(s) == [i \in 1..Len(s) |-> LowerChar(s[i])]

\* s.replace(c, "") on a sequence of characters, c being one character
RECURSIVE Remove(_, _)
Remove(s, c) ==
    IF s = <<>> THEN s
    ELSE (IF s[1] = c THEN <<>> ELSE <<s[1]>>) \o Remove(Tail(s), c)

\* str.strip() on a sequence of characters
RECURSIVE StripChars(_)
StripChars(s) ==
    IF s = <<>> THEN s
    ELSE IF s[1] \in Whitespace THEN StripChars(Tail(s))
    ELSE IF s[Len(s)] \in Whitespace THEN StripChars(SubSeq(s, 1, Len(s) - 1))
    ELSE s

\* the characters of the string literals the code compares text with
Codes(s) ==
    CASE s = "*" -> <<42>>
      [] s = ":" -> <<58>>
      [] s = "required" ->
          <<114, 101, 113, 117, 105, 114, 101, 100>>
      [] s = "optional" ->
          <<111, 112, 116, 105, 111, 110, 97, 108>>
      [] s = "conditional" ->
          <<99, 111, 110, 100, 105, 116, 105, 111, 110, 97, 108>>
      [] s = "version history" ->
          <<118, 101, 114, 115, 105, 111, 110, 32, 104, 105, 115, 116, 111,
            114, 121>>
      [] s = "version" ->
          <<118, 101, 114, 115, 105, 111, 110>>
      [] s = "permission" ->
          <<112, 101, 114, 109, 105, 115, 115, 105, 111, 110>>
      [] s = "method" ->
          <<109, 101, 116, 104, 111, 100>>
      [] s = "params" ->
          <<112, 97, 114, 97, 109, 115>>
      [] s = "parameters" ->
          <<112, 97, 114, 97, 109, 101, 116, 101, 114, 115>>
      [] s = "success response" ->
          <<115, 117, 99, 99, 101, 115, 115, 32, 114, 101, 115, 112, 111,
            110, 115, 101>>
      [] s = "error response" ->
          <<101, 114, 114, 111, 114, 32, 114, 101, 115, 112, 111, 110, 115,
            101>>
      [] s = "sample parameters" ->
          <<115, 97, 109, 112, 108, 101, 32, 112, 97, 114, 97, 109, 101,
            116, 101, 114, 115>>
      [] s = "sample get" ->
          <<115, 97, 109, 112, 108, 101, 32, 103, 101, 116>>
      [] s = "sample post" ->
          <<115, 97, 109, 112, 108, 101, 32, 112, 111, 115, 116>>

Line(kind, text, name, type, doc) ==
    [kind |-> kind, text |-> text, name |-> name, type |-> type, doc |-> doc,
     chars |-> <<>>]

\* the line "**<name>:**", name being a sequence of characters
Marker(name) ==
    [Line("marker", "", "", "", "")
       EXCEPT !.chars = <<42, 42>> \o name \o <<58, 42, 42>>]

NoneLine(text) == Line("none", text, "", "", "")

ParamLine(name, type, doc) ==
    Line("param",
         name \o (IF type = "" THEN "" ELSE " " \o type)
              \o (IF doc = "" THEN "" ELSE " - " \o doc),
         name, type, doc)

Prose(text) == Line("prose", text, "", "", "")

Blank == Line("blank", "", "", "", "")

Parameter(name, type, doc, presence) ==
    [name |-> name, type |-> type, doc |-> doc, presence |-> presence]

\* the bracketed type tokens parse_param_type knows, and their tags
TypeTags ==
    [s \in {"[integer or \"all\"]", "[boolean]", "[date]", "[date dd/mm/yyyy]",
            "[timestamp yyyy-MM-dd HH:mm:ss.SSS]", "[decimal]", "[number]",
            "[num]", "[integer]", "[array]", "[string]", "[time]"} |->
       CASE s = "[integer or \"all\"]" -> "any"
         [] s = "[boolean]" -> "bool"
         [] s \in {"[date]", "[date dd/mm/yyyy]"} -> "date"
         [] s = "[timestamp yyyy-MM-dd HH:mm:ss.SSS]" -> "datetime"
         [] s = "[decimal]" -> "float"
         [] s \in {"[number]", "[num]", "[integer]"} -> "int"
         [] s = "[array]" -> "list"
         [] s = "[string]" -> "str"
         [] s = "[time]" -> "time"]

\* a token without its brackets, or with an unknown type, is a ParseError
parse_param_type(s) ==
    IF s \in DOMAIN TypeTags THEN [ok |-> TRUE, tag |-> TypeTags[s]]
    ELSE [ok |-> FALSE, tag |-> ""]

\* the Parameter of a required or optional line, t being its parsed type
TypedParameter(s, presence, t) ==
    IF t.ok THEN Ok(<<Parameter(s.name, t.tag, s.doc, presence)>>)
    ELSE Err("ParseError")

\* the whole line s, which "param.doc = s" stores: a marker line is held
\* character by character in chars, every other line in text
WholeLine(s) == IF s.kind = "marker" THEN s.chars ELSE s.text

\* the result is a one-element list holding the Parameter
parse_param_line(s, presence) ==
    IF presence = "conditional"
    THEN Ok(<<Parameter("", "", WholeLine(s), "conditional")>>)
    ELSE IF presence # "required" /\ presence # "optional" THEN Err("ParseError")
    ELSE IF s.kind = "blank" THEN Err("IndexError")
    ELSE IF s.kind # "param" THEN Err("ParseError")
    ELSE IF s.type = "" THEN Ok(<<Parameter(s.name, "", s.doc, presence)>>)
    ELSE TypedParameter(s, presence, parse_param_type(s.type))

\* line.replace("*", "").replace(":", "").lower() on the characters of a
\* marker line
Lower(line) == LowerChars(Remove(Remove(line, 42), 58))

Presences == {"required", "optional", "conditional"}

\* "match presence": the literal the characters equal, "" if none
Matched(presence) ==
    IF \E p \in Presences : Codes(p) = presence
    THEN CHOOSE p \in Presences : Codes(p) = presence
    ELSE ""

RECURSIVE ParamsLoop(_, _, _, _)

\* params.append(...), p being the outcome of parse_param_line
ParamsAppend(lines, i, presence, params, p) ==
    IF p.ok THEN ParamsLoop(lines, i + 1, presence, params \o p.res) ELSE p

\* a marker line sets the category, an unknown one is a ParseError
ParamsMarker(lines, i, params, presence) ==
    IF Matched(presence) \in Presences
    THEN ParamsLoop(lines, i + 1, Matched(presence), params)
    ELSE Err("ParseError")

\* the loop body with the none sentinel skipped before the category is
\* looked at
ParamsLineNoneFirst(lines, i, presence, params, line) ==
    IF line.kind = "marker" THEN ParamsMarker(lines, i, params, Lower(line.chars))
    ELSE IF line.kind = "none" THEN ParamsLoop(lines, i + 1, presence, params)
    ELSE IF presence = "" THEN Err("ParseError")
    ELSE ParamsAppend(lines, i, presence, params,
                      parse_param_line(line, presence))

\* the loop body for one line; presence "" is None
ParamsLine(lines, i, presence, params, line) ==
    IF line.kind = "marker" THEN ParamsMarker(lines, i, params, Lower(line.chars))
    ELSE IF presence = "" THEN Err("ParseError")
    ELSE IF line.kind = "none" THEN ParamsLoop(lines, i + 1, presence, params)
    ELSE ParamsAppend(lines, i, presence, params,
                      parse_param_line(line, presence))

\* "for line in lines" from position i
ParamsLoop(lines, i, presence, params) ==
    IF i > Len(lines) THEN Ok(params)
    ELSE ParamsLine(lines, i, presence, params, lines[i])

\* re.split(empty_line_re, s) and strip: an empty section is one empty line
SplitLines(entries) == IF entries = <<>> THEN <<Blank>> ELSE entries

parse_params(entries) == ParamsLoop(SplitLines(entries), 1, "", <<>>)

(***************************************************************************)
(* SpecParams: parse_params on a section of blank-line-separated entries.  *)
(***************************************************************************)
MaxEntries == 4

\* the names the sections' markers and headers carry, character by character

\* "Required"
Required ==
    <<82, 101, 113, 117, 105, 114, 101, 100>>

\* "Optional"
Optional ==
    <<79, 112, 116, 105, 111, 110, 97, 108>>

\* "CONDITIONAL"
CONDITIONAL ==
    <<67, 79, 78, 68, 73, 84, 73, 79, 78, 65, 76>>

\* "Notes"
Notes ==
    <<78, 111, 116, 101, 115>>

Entries ==
    {Marker(Required), Marker(Optional), Marker(CONDITIONAL),
     Marker(Notes), NoneLine("none"), NoneLine("None"),
     ParamLine("id", "[number]", "the id"), ParamLine("flag", "", ""),
     ParamLine("w", "[widget]", "unknown type"), Prose("only when id is set")}

InitParams ==
    /\ pc = "start"
    /\ arg \in [entries : SeqsUpTo(Entries, MaxEntries)]
    /\ heap = Response
    /\ ret = Err("")

CallParseParams ==
    /\ pc = "start"
    /\ ret' = parse_params(arg.entries)
    /\ pc' = "done"
    /\ UNCHANGED <<arg, heap>>

NextParams == CallParseParams

SpecParams == InitParams /\ [][NextParams]_vars

\* the entries the claim speaks of: known categories, the sentinel, and
\* parameter lines that parse under every category
WellFormed(e) ==
    \/ e.kind = "marker" /\ Matched(Lower(e.chars)) \in Presences
    \/ e.kind = "none"
    \/ e.kind = "param" /\ (e.type = "" \/ e.type \in DOMAIN TypeTags)

Covered(es) == \A i \in 1..Len(es) : WellFormed(es[i])

\* the category of entry i: the most recent marker before it, "" if none
RECURSIVE CategoryAt(_, _)
CategoryAt(es, i) ==
    IF i = 0 THEN ""
    ELSE IF es[i].kind = "marker" THEN Matched(Lower(es[i].chars))
    ELSE CategoryAt(es, i - 1)

\* the parameter lines of es, in document order
RECURSIVE ParamIndexes(_, _)
ParamIndexes(es, i) ==
    IF i > Len(es) THEN <<>>
    ELSE (IF es[i].kind = "param" THEN <<i>> ELSE <<>>) \o ParamIndexes(es, i + 1)

\* one Parameter per parameter line, in order, with the line's category
OnePerLine(es, r) ==
    LET idx == ParamIndexes(es, 1)
    IN  /\ r.ok
        /\ Len(r.res) = Len(idx)
        /\ \A n \in 1..Len(idx) :
              /\ r.res[n].presence = CategoryAt(es, idx[n])
              /\ IF r.res[n].presence = "conditional"
                 THEN r.res[n].doc = es[idx[n]].text
                 ELSE r.res[n].name = es[idx[n]].name

\* C8 as stated: parse_params fails if a parameter line comes before any
\* category marker; otherwise it returns one Parameter per parameter line, in
\* document order, each with the most recent category, and none entries
\* produce nothing.
C8_ParamsByCategory ==
    (pc = "done" /\ Covered(arg.entries) /\ arg.entries # <<>>) =>
      IF \E i \in 1..Len(arg.entries) :
            arg.entries[i].kind = "param" /\ CategoryAt(arg.entries, i) = ""
      THEN ~ret.ok
      ELSE OnePerLine(arg.entries, ret)

\* C8 amended: parse_params fails with a ParseError if the section is empty
\* or its first entry is not a category marker (a parameter line or a none
\* sentinel before any marker); otherwise it returns one Parameter per
\* parameter line, in document order, each with the most recent category, and
\* none entries produce nothing.
C8_FirstEntryIsMarker ==
    (pc = "done" /\ Covered(arg.entries)) =>
      IF arg.entries = <<>> \/ arg.entries[1].kind # "marker"
      THEN ~ret.ok /\ ret.err = "ParseError"
      ELSE OnePerLine(arg.entries, ret)

\* two categories, a skipped sentinel and a parameter in the second category
C8_Witness ==
    /\ pc = "done"
    /\ arg.entries = <<Marker(Required), NoneLine("none"),
                       Marker(Optional), ParamLine("id", "[number]", "the id")>>
    /\ ret = Ok(<<Parameter("id", "int", "the id", "optional")>>)

(***************************************************************************)
(* Request documents.  A document is [delim, title, doc, sections]: delim   *)
(* says whether the "----" title line is there, title is the text before   *)
(* that line and header a section's header, both as sequences of           *)
(* characters, doc is the text before the                                  *)
(* first header [text, marker] (marker: it still holds "**:"), and each     *)
(* section is what re.split(header_re) leaves: [header, sep, text], sep    *)
(* saying whether ":**" ends the header.  The text of a parameters or       *)
(* response section names one of the sample bodies below, which give its    *)
(* entries or its fenced blocks.                                            *)
(* A Request is its attributes, with attrs the set of those assigned.       *)
(***************************************************************************)
Section(header, sep, text) == [header |-> header, sep |-> sep, text |-> text]

Sample == JDict(<<"a">>, <<Scalar("int")>>)

\* the entries of a parameters section body
EntriesOf(text) ==
    IF text = "required id"
    THEN <<Marker(Required), ParamLine("id", "[number]", "the id")>>
    ELSE <<>>

\* the fenced blocks of a response section body
BlocksOf(text) ==
    CASE text = "javascript sample" -> <<Block("js", Text("obj", Sample), TRUE)>>
      [] text = "json invalid" -> <<Block("json", Text("members_unq", Invalid), TRUE)>>
      [] OTHER -> <<>>

Request ==
    [attrs |-> {}, name |-> <<>>, doc |-> "", scope |-> "", version |-> 0,
     permissions |-> "", params |-> <<>>, sample_params |-> "",
     success_response |-> Response, error_response |-> Response]

Set(req, attr) == [req EXCEPT !.attrs = @ \cup {attr}]

Returned(req) == [ok |-> TRUE, err |-> "", req |-> req]

Raised(e) == [ok |-> FALSE, err |-> e, req |-> Request]

\* s.replace("*", "").strip(), the title being a sequence of characters
parse_request_name(title) == StripChars(Remove(title, 42))

parse_version(s) ==
    CASE s = "1" -> [ok |-> FALSE, v |-> 0]
      [] s = "2" -> [ok |-> TRUE, v |-> 2]
      [] s = "3" -> [ok |-> TRUE, v |-> 3]
      [] OTHER -> [ok |-> FALSE, v |-> 0]

\* header.lower(), the header being a sequence of characters
LowerHeader(h) == LowerChars(h)

RECURSIVE SectionsLoop(_, _, _)

\* req.version = parse_version(...), v being the outcome
SetVersion(secs, i, req, v) ==
    IF v.ok
    THEN SectionsLoop(secs, i + 1, Set([req EXCEPT !.version = v.v], "version"))
    ELSE Raised("ParseError")

\* req.params = parse_params(...), r being the outcome
SetParams(secs, i, req, r) ==
    IF r.ok
    THEN SectionsLoop(secs, i + 1, Set([req EXCEPT !.params = r.res], "params"))
    ELSE Raised(r.err)

\* req.success_response = parse_success_response(...), r being the outcome
SetSuccess(secs, i, req, r) ==
    IF r.ok
    THEN SectionsLoop(secs, i + 1,
                      Set([req EXCEPT !.success_response = r.res],
                          "success_response"))
    ELSE Raised(r.err)

\* req.error_response = parse_error_response(...), r being the outcome
SetError(secs, i, req, r) ==
    IF r.ok
    THEN SectionsLoop(secs, i + 1,
                      Set([req EXCEPT !.error_response = r.res],
                          "error_response"))
    ELSE Raised(r.err)

\* "match header.lower()" for the section spl
Dispatch(secs, i, req, spl, header) ==
    IF ~spl.sep THEN Raised("ParseError")
    ELSE IF header \in {Codes("version history"), Codes("method"),
                         Codes("sample get"), Codes("sample post")}
    THEN SectionsLoop(secs, i + 1, req)
    ELSE IF header = Codes("version")
    THEN SetVersion(secs, i, req, parse_version(spl.text))
    ELSE IF header = Codes("permission")
    THEN SectionsLoop(secs, i + 1,
                      Set([req EXCEPT !.permissions = spl.text], "permissions"))
    ELSE IF header \in {Codes("params"), Codes("parameters")}
    THEN SetParams(secs, i, req, parse_params(EntriesOf(spl.text)))
    ELSE IF header = Codes("success response")
    THEN SetSuccess(secs, i, req,
                    parse_success_response(Strip(Flatten(BlocksOf(spl.text)))))
    ELSE IF header = Codes("error response")
    THEN SetError(secs, i, req,
                  parse_error_response(Strip(Flatten(BlocksOf(spl.text)))))
    ELSE IF header = Codes("sample parameters")
    THEN SectionsLoop(secs, i + 1,
                      Set([req EXCEPT !.sample_params = spl.text], "sample_params"))
    ELSE Raised("ParseError")

\* "for spl in split[1:]" from position i
SectionsLoop(secs, i, req) ==
    IF i > Len(secs) THEN Returned(req)
    ELSE Dispatch(secs, i, req, secs[i], LowerHeader(secs[i].header))

parse_request(text, api_scope) ==
    IF ~text.delim THEN Raised("ParseError")
    ELSE IF text.doc.marker THEN Raised("ParseError")
    ELSE SectionsLoop(text.sections, 1,
                      Set(Set(Set([Request EXCEPT
                                     !.scope = api_scope,
                                     !.name = parse_request_name(text.title),
                                     !.doc = text.doc.text],
                                  "scope"), "name"), "doc"))

\* the attributes Request.into_dict reads without a hasattr test
Read == {"name", "doc", "scope", "version", "params", "sample_params",
         "success_response", "error_response"}

\* the dict, or the AttributeError of the first attribute never assigned;
\* "req['permissions'] = self.permissions," stores a one-element tuple
into_dict(req) ==
    IF ~(Read \subseteq req.attrs) THEN [ok |-> FALSE, err |-> "AttributeError",
                                         keys |-> {}, permissions |-> <<>>]
    ELSE [ok |-> TRUE, err |-> "",
          keys |-> Read \cup (IF "permissions" \in req.attrs
                              THEN {"permissions"} ELSE {}),
          permissions |-> IF "permissions" \in req.attrs
                          THEN <<req.permissions>> ELSE <<>>]

(***************************************************************************)
(* SpecRequest: main's loop body on one document: parse_request, then      *)
(* into_dict on the Request it returned.                                   *)
(***************************************************************************)
MaxSections == 5

\* "Version"
Version ==
    <<86, 101, 114, 115, 105, 111, 110>>

\* "Permission"
Permission ==
    <<80, 101, 114, 109, 105, 115, 115, 105, 111, 110>>

\* "Method"
Method ==
    <<77, 101, 116, 104, 111, 100>>

\* "Parameters"
Parameters ==
    <<80, 97, 114, 97, 109, 101, 116, 101, 114, 115>>

\* "Success Response"
SuccessResponse ==
    <<83, 117, 99, 99, 101, 115, 115, 32, 82, 101, 115, 112, 111, 110, 115,
      101>>

\* "Error Response"
ErrorResponse ==
    <<69, 114, 114, 111, 114, 32, 82, 101, 115, 112, 111, 110, 115, 101>>

\* "Sample Parameters"
SampleParameters ==
    <<83, 97, 109, 112, 108, 101, 32, 80, 97, 114, 97, 109, 101, 116, 101,
      114, 115>>

Sections ==
    {Section(Version, TRUE, "3"),
     Section(Version, TRUE, "1"),
     Section(Permission, TRUE, "admin"),
     Section(Method, TRUE, "GET"),
     Section(Parameters, TRUE, "required id"),
     Section(SuccessResponse, TRUE, "javascript sample"),
     Section(ErrorResponse, TRUE, "json invalid"),
     Section(SampleParameters, TRUE, "?id=1"),
     Section(Notes, TRUE, ""),
     Section(Version, FALSE, "3")}

\* the text before the "----" line: "**getStudent**\n"
Title ==
    <<42, 42, 103, 101, 116, 83, 116, 117, 100, 101, 110, 116, 42, 42, 10>>

Document(delim, doc, sections) ==
    [delim |-> delim, title |-> Title,
     doc |-> doc, sections |-> sections]

Described == [text |-> "Returns a student.", marker |-> FALSE]

Undescribed == [text |-> "", marker |-> TRUE]

\* every section sequence under a sound title and description; a missing
\* title line or description with at most one section
InitRequest ==
    /\ pc = "start"
    /\ \/ \E n \in 0..MaxSections : \E secs \in [1..n -> Sections] :
             arg = [text |-> Document(TRUE, Described, secs), scope |-> "student"]
       \/ \E delim \in BOOLEAN, doc \in {Described, Undescribed} :
             \E secs \in SeqsUpTo(Sections, 1) :
                arg = [text |-> Document(delim, doc, secs), scope |-> "student"]
    /\ heap = Response
    /\ ret = [parse |-> Raised(""), dict |-> into_dict(Request)]

CallParseRequest ==
    /\ pc = "start"
    /\ LET r == parse_request(arg.text, arg.scope)
       IN  /\ ret' = [ret EXCEPT !.parse = r]
           /\ pc' = IF r.ok THEN "parsed" ELSE "failed"
    /\ UNCHANGED <<arg, heap>>

\* str(res) of the line before reads the attributes into_dict reads and
\* fails as into_dict does
CallIntoDict ==
    /\ pc = "parsed"
    /\ ret' = [ret EXCEPT !.dict = into_dict(ret.parse.req)]
    /\ pc' = "done"
    /\ UNCHANGED <<arg, heap>>

NextRequest == CallParseRequest \/ CallIntoDict

SpecRequest == InitRequest /\ [][NextRequest]_vars

\* C9: whenever parse_request returns, version, params, sample_params,
\* success_response and error_response are all set, and into_dict on the
\* returned Request succeeds with every field of the data model; no partial
\* Request is returned.
C9_NoPartialRequest ==
    /\ pc \in {"parsed", "done"} => Read \subseteq ret.parse.req.attrs
    /\ pc = "done" => ret.dict.ok /\ Read \subseteq ret.dict.keys

(***************************************************************************)
(* SpecAssoc: three schemas; each side of the associativity law is         *)
(* evaluated on fresh copies of a, b and c.  An exception in the inner     *)
(* call propagates out of the outer one.                                   *)
(***************************************************************************)
UnionOutcome(x, y) ==
    IF x.ok /\ y.ok THEN Outcome(union_response(x.res, y.res)) ELSE NoRet

Fresh(r) == [ok |-> TRUE, res |-> r]

InitAssoc ==
    /\ pc = "start"
    /\ arg \in [a : ResponsesTriple, b : ResponsesTriple, c : Responses]
    /\ heap = [r1 |-> arg.a, r2 |-> arg.b]
    /\ ret = [left |-> NoRet, right |-> NoRet]

\* union_response(union_response(a, b), c)
CallLeft ==
    /\ pc = "start"
    /\ ret' = [ret EXCEPT !.left =
                 UnionOutcome(UnionOutcome(Fresh(arg.a), Fresh(arg.b)),
                              Fresh(arg.c))]
    /\ pc' = "left"
    /\ UNCHANGED <<arg, heap>>

\* union_response(a, union_response(b, c))
CallRight ==
    /\ pc = "left"
    /\ ret' = [ret EXCEPT !.right =
                 UnionOutcome(Fresh(arg.a),
                              UnionOutcome(Fresh(arg.b), Fresh(arg.c)))]
    /\ pc' = "done"
    /\ UNCHANGED <<arg, heap>>

NextAssoc == CallLeft \/ CallRight

SpecAssoc == InitAssoc /\ [][NextAssoc]_vars

(***************************************************************************)
(* Claims about union_response.                                            *)
(***************************************************************************)
\* key k is an array on both sides and exactly one side has a nested schema
OneSidedArray(a, b, k) ==
    /\ Has(a, k) /\ Has(b, k)
    /\ Field(a, k).type = "array" /\ Field(b, k).type = "array"
    /\ (Field(a, k).nested = None) # (Field(b, k).nested = None)

Populated(a, b, k) ==
    IF Field(a, k).nested # None THEN Field(a, k).nested[1]
    ELSE Field(b, k).nested[1]

ArrayWith(r, k, n) ==
    /\ r.ok
    /\ Has(r.res, k)
    /\ Field(r.res, k).type = "array"
    /\ Field(r.res, k).nested # None
    /\ SameSchema(Field(r.res, k).nested[1], n)

\* C1: when a and b share exactly the array key k, one side without a nested
\* schema and the other with nested schema N, both union_response(a, b) and
\* union_response(b, a) succeed and give k kind array with nested schema N.
C1_PopulatedSideWins ==
    pc = "done" =>
      \A k \in Keys :
         (OneSidedArray(arg.a, arg.b, k) /\ KeySet(arg.a) \cap KeySet(arg.b) = {k})
           => /\ ArrayWith(ret.ab, k, Populated(arg.a, arg.b, k))
              /\ ArrayWith(ret.ba, k, Populated(arg.a, arg.b, k))

\* C2: union_response is commutative up to key order: both orders fail, or
\* both return the same schema.
C2_Commutative ==
    pc = "done" =>
      /\ ret.ab.ok = ret.ba.ok
      /\ ret.ab.ok => SameSchema(ret.ab.res, ret.ba.res)

\* C3: union_response is associative up to key order: both groupings fail, or
\* both return the same schema.
C3_Associative ==
    pc = "done" =>
      /\ ret.left.ok = ret.right.ok
      /\ ret.left.ok => SameSchema(ret.left.res, ret.right.res)

\* a shared key whose kinds differ, at the top level or inside nested schemas
\* present on both sides under a shared key
RECURSIVE Conflict(_, _)
Conflict(x, y) ==
    \E k \in KeySet(x) \cap KeySet(y) :
       LET f == Field(x, k)
           g == Field(y, k)
       IN  \/ f.type # g.type
           \/ /\ f.nested # None
              /\ g.nested # None
              /\ Conflict(f.nested[1], g.nested[1])

\* C7: when a and b share a key with different kinds (top level, or inside
\* nested schemas present on both sides), union_response fails in both
\* argument orders and returns no Response.
C7_ConflictFails ==
    Conflict(arg.a, arg.b) =>
      /\ pc \in {"ab", "done"} => ~ret.ab.ok /\ ret.ab.res = Response
      /\ pc = "done" => ~ret.ba.ok /\ ret.ba.res = Response

\* the conflict lies inside nested schemas only: the top-level kinds agree
C7_Witness ==
    /\ pc = "done"
    /\ Conflict(arg.a, arg.b)
    /\ \A k \in KeySet(arg.a) \cap KeySet(arg.b) :
          Field(arg.a, k).type = Field(arg.b, k).type
    /\ ~ret.ab.ok

\* C10: union_response leaves both arguments as they were: after a call that
\* returns, every field reachable from r1 and r2 has its kind and nested
\* schema unchanged.
C10_ArgumentsUnchanged ==
    (pc = "ab" /\ ret.ab.ok) => heap.r1 = arg.a /\ heap.r2 = arg.b

====
